---- MODULE Spec2Model ----
(***************************************************************************)
(* A model of cellar: the three sandbox launchers (BubLauncher,            *)
(* FirejailLauncher, NSJail) that turn a builder-style configuration into  *)
(* a process invocation, and the reaper, which decodes one ReaperCommand   *)
(* from its standard input and runs it.                                    *)
(*                                                                         *)
(* Rust values are modelled as follows.                                    *)
(*   String / PathBuf   a TLA+ string                                      *)
(*   Vec<T>             a sequence                                         *)
(*   Option<T>          a sequence of length 0 (None) or 1 (Some)          *)
(*   enum variants      a tuple whose first element is the variant name    *)
(*   Command            the sequence of arguments added with arg()         *)
(*   a panic            an outcome of kind "panic": no value is returned   *)
(***************************************************************************)
EXTENDS Integers, Sequences, FiniteSets, TLC

VARIABLES
    hostenv,        \* the environment of the translating process: name -> Option<value>
    bub,            \* the BubLauncher under construction
    bubResult,      \* the outcome of BubLauncher::command
    bubSpawned,     \* TRUE once the caller has spawned the returned Command
    bubCalls,       \* the mount() and env() calls made on the launcher, in call order
    fj,             \* the FirejailLauncher under construction
    fjWrites,       \* assignments made to the launcher's pub fields
    fjResult,       \* the outcome of FirejailLauncher::command
    fjAgain,        \* the outcome of translating a launcher with the same fields later
    fjEnvFirst,     \* the process environment at the first translation
    ns,             \* the NSJail under construction
    nsResult,       \* the outcome of NSJail::command
    nsSpawned,      \* TRUE once the caller has spawned the returned Command
    jailProto,      \* the file ./jail.proto: None, or Some(the chunks written)
    jailProtoBefore, \* ./jail.proto as the latest NSJail::command found it
    nsFault,        \* the filesystem fault the latest NSJail::command met
    rpCommand,      \* the ReaperCommand the host dispatches: None until it does
    wire,           \* the bytes that have arrived on the reaper's stdin
    stdinClosed,    \* TRUE once the host has dropped the reaper's stdin
    reaper,         \* the reaper process: state, decoded command, exit code
    target,         \* the program the reaper started: None, or what it was given
    launch,         \* two launches racing on ./jail.proto: launcher, position, offset
    protoFile       \* the bytes of the ./jail.proto the two launches share

bubVars == <<bub, bubResult, bubSpawned, bubCalls>>
fjVars == <<fj, fjWrites, fjResult, fjAgain, fjEnvFirst>>
nsVars == <<ns, nsResult, nsSpawned, jailProto, jailProtoBefore, nsFault>>
rpVars == <<rpCommand, wire, stdinClosed, reaper, target>>
raceVars == <<launch, protoFile>>

vars == <<hostenv, bubVars, fjVars, nsVars, rpVars, raceVars>>

\* what the operations of one component leave alone
bubOthers == <<hostenv, fjVars, nsVars, rpVars, raceVars>>
fjOthers == <<hostenv, bubVars, nsVars, rpVars, raceVars>>
nsOthers == <<hostenv, bubVars, fjVars, rpVars, raceVars>>
rpOthers == <<hostenv, bubVars, fjVars, nsVars, raceVars>>
raceOthers == <<hostenv, bubVars, fjVars, nsVars, rpVars>>
hostOthers == <<bubVars, fjVars, nsVars, rpVars, raceVars>>

(***************************************************************************)
(* Bounds of the model.                                                    *)
(***************************************************************************)
\* mount() and env() calls made on one BubLauncher
MaxBubItems == 3
\* whitelist() and blacklist() calls made on one FirejailLauncher
MaxFjPaths == 2
\* direct assignments to the pub fields of one FirejailLauncher
MaxFjWrites == 1
\* mount(), symlink() and env() calls made on one NSJail
MaxNsItems == 2
\* arguments plus environment entries of one ReaperCommand
MaxRpItems == 2
\* mount() and symlink() calls made on each of two racing NSJail launchers
MaxRaceBlocks == 2

(***************************************************************************)
(* Option<T>                                                               *)
(***************************************************************************)
None == << >>
Some(x) == <<x>>
IsSome(o) == Len(o) = 1
Unwrap(o) == o[1]

(***************************************************************************)
(* The process environment read by std::env::var.  A variable is unset,    *)
(* set to a value that is not valid unicode, or set to a string.           *)
(***************************************************************************)
NotUnicode == <<"NotUnicode">>
EnvNames == {"HOME", "LANG", "DISPLAY"}

\* std::env::var(k): Ok(value) only for a variable that is set and unicode
EnvVarLookup(env, k) ==
    IF k \in DOMAIN env /\ env[k] # None /\ env[k] # NotUnicode
    THEN [ok |-> TRUE, val |-> Unwrap(env[k])]
    ELSE [ok |-> FALSE, val |-> ""]

(***************************************************************************)
(* cellar_sandbox::EnvVar                                                  *)
(***************************************************************************)
Pass(k) == <<"Pass", k>>
KeyValue(k, v) == <<"KeyValue", k, v>>

\* EnvVar::key
EnvKey(e) == e[2]

\* EnvVar::to_key_value against a buggy lookup that substitutes "" for a
\* variable it cannot read
ToKeyValueLenient(env, e) ==
    IF e[1] = "Pass"
    THEN [ok |-> TRUE, k |-> e[2], v |-> EnvVarLookup(env, e[2]).val]
    ELSE [ok |-> TRUE, k |-> e[2], v |-> e[3]]

\* EnvVar::to_key_value: ok = FALSE stands for the panic of expect()
ToKeyValue(env, e) ==
    IF e[1] = "Pass"
    THEN LET r == EnvVarLookup(env, e[2])
         IN  [ok |-> r.ok, k |-> e[2], v |-> r.val]
    ELSE [ok |-> TRUE, k |-> e[2], v |-> e[3]]

(***************************************************************************)
(* cellar_sandbox::bubblewrap::BubMount                                    *)
(***************************************************************************)
\* BubMount::apply_arg: the arguments one mount adds to the command
ApplyArg(m) ==
    CASE m[1] = "DevBind" -> <<"--dev-bind", m[2], m[3]>>
      [] m[1] = "BindRO"  -> <<"--ro-bind", m[2], m[3]>>
      [] m[1] = "BindRW"  -> <<"--bind", m[2], m[3]>>
      [] m[1] = "Symlink" -> <<"--symlink", m[2], m[3]>>
      [] m[1] = "TmpFs"   -> <<"--tmpfs", m[2]>>
      [] m[1] = "Proc"    -> <<"--proc", m[2]>>
      [] m[1] = "Dir"     -> <<"--dir", m[2]>>
      [] m[1] = "File"    -> <<"--file", m[2], m[3]>>

\* the mounts the builder is given: one of every variant
BubMounts ==
    { <<"DevBind", "/dev", "/dev">>,
      <<"BindRO", "/usr", "/usr">>,
      <<"BindRW", "/prefix", "/wineprefix">>,
      <<"Symlink", "/usr/bin", "/bin">>,
      <<"TmpFs", "/tmp">>,
      <<"Proc", "/proc">>,
      <<"Dir", "/home">>,
      <<"File", "content", "/etc/hosts">> }

\* the environment actions the builder is given
BubEnvVars ==
    { Pass("HOME"), Pass("LANG"), Pass("DISPLAY"),
      KeyValue("HOME", "/home"), KeyValue("HOME", "/root") }

Hostnames == {"vanilla"}

(***************************************************************************)
(* cellar_sandbox::bubblewrap::BubLauncher                                 *)
(***************************************************************************)
\* a BubLauncher::default() that leaves the network shared
BubDefaultNetShared ==
    [ mounts |-> << >>, env |-> << >>, inherit_env |-> FALSE,
      unshare_user |-> FALSE, unshare_ipc |-> FALSE, unshare_pid |-> TRUE,
      unshare_net |-> FALSE, unshare_uts |-> TRUE, unshare_cgroups |-> TRUE,
      as_pid_1 |-> TRUE, new_session |-> TRUE, die_with_parent |-> TRUE,
      hostname |-> None, uid |-> None, gid |-> None ]

\* impl Default for BubLauncher
BubDefault ==
    [ mounts |-> << >>, env |-> << >>, inherit_env |-> FALSE,
      unshare_user |-> FALSE, unshare_ipc |-> FALSE, unshare_pid |-> TRUE,
      unshare_net |-> TRUE, unshare_uts |-> TRUE, unshare_cgroups |-> TRUE,
      as_pid_1 |-> TRUE, new_session |-> TRUE, die_with_parent |-> TRUE,
      hostname |-> None, uid |-> None, gid |-> None ]

\* the concatenation of f(s[1]), f(s[2]), ... for a sequence of sequences
RECURSIVE Flatten(_)
Flatten(ss) ==
    IF ss = << >> THEN << >> ELSE Head(ss) \o Flatten(Tail(ss))

\* self.mounts.into_iter().for_each(|x| x.apply_arg(&mut cmd))
MountArgs(mounts) ==
    Flatten([i \in 1..Len(mounts) |-> ApplyArg(mounts[i])])

\* the mounts loop of a translator that walks the vector from its end
MountArgsReversed(mounts) ==
    Flatten([i \in 1..Len(mounts) |-> ApplyArg(mounts[Len(mounts) + 1 - i])])

\* bool_opt!(prop, when true arg) and bool_opt!(prop, when false arg)
WhenTrue(prop, arg) == IF prop THEN <<arg>> ELSE << >>
WhenFalse(prop, arg) == IF ~prop THEN <<arg>> ELSE << >>

\* an env loop over a map keyed by name: only the last entry of a name is
\* emitted
SetenvArgsLastWins(env, entries) ==
    Flatten([i \in 1..Len(entries) |->
        IF \E j \in (i + 1)..Len(entries) : EnvKey(entries[j]) = EnvKey(entries[i])
        THEN << >>
        ELSE LET kv == ToKeyValue(env, entries[i])
             IN  <<"--setenv", kv.k, kv.v>>])

\* the env loop: one --setenv group per resolved EnvVar
SetenvArgs(env, entries) ==
    Flatten([i \in 1..Len(entries) |->
        LET kv == ToKeyValue(env, entries[i]) IN <<"--setenv", kv.k, kv.v>>])

\* TRUE when to_key_value panics on some entry of the env vector
EnvPanics(env, entries) ==
    \E i \in 1..Len(entries) : ~ToKeyValue(env, entries[i]).ok

\* flags that spell out the namespaces left shared: a negative form for
\* every unshare field that is false
BubFlagArgsNegative(l) ==
    WhenTrue(l.unshare_user, "--unshare-user")
    \o WhenFalse(l.unshare_user, "--share-user")
    \o WhenTrue(l.unshare_ipc, "--unshare-ipc")
    \o WhenFalse(l.unshare_ipc, "--share-ipc")
    \o WhenTrue(l.unshare_pid, "--unshare-pid")
    \o WhenTrue(l.unshare_net, "--unshare-net")
    \o WhenFalse(l.unshare_net, "--share-net")
    \o WhenTrue(l.unshare_uts, "--unshare-uts")
    \o WhenTrue(l.unshare_cgroups, "--unshare-cgroup")
    \o WhenTrue(l.as_pid_1, "--as-pid-1")
    \o WhenTrue(l.new_session, "--new-session")
    \o WhenTrue(l.die_with_parent, "--die-with-parent")

\* the namespace and session flags, in the order command() tests them
BubFlagArgs(l) ==
    WhenTrue(l.unshare_user, "--unshare-user")
    \o WhenTrue(l.unshare_ipc, "--unshare-ipc")
    \o WhenTrue(l.unshare_pid, "--unshare-pid")
    \o WhenTrue(l.unshare_net, "--unshare-net")
    \o WhenTrue(l.unshare_uts, "--unshare-uts")
    \o WhenTrue(l.unshare_cgroups, "--unshare-cgroup")
    \o WhenTrue(l.as_pid_1, "--as-pid-1")
    \o WhenTrue(l.new_session, "--new-session")
    \o WhenTrue(l.die_with_parent, "--die-with-parent")

\* the outcome of a call: a returned Command or a panic that unwinds
Returned(args) == [kind |-> "Command", args |-> args]
Panicked(msg) == [kind |-> "panic", msg |-> msg]
Pending == [kind |-> "pending"]

\* a command() that clears the environment after setting the variables
BubCommandClearLast(env, l) ==
    IF EnvPanics(env, l.env)
    THEN Panicked("failed to get env var")
    ELSE Returned(MountArgs(l.mounts)
                  \o SetenvArgs(env, l.env)
                  \o WhenFalse(l.inherit_env, "--clearenv")
                  \o BubFlagArgs(l))

\* a command() over one list of actions, emitted in the order the builder
\* calls were made
BubCommandInCallOrder(env, l) ==
    IF EnvPanics(env, l.env)
    THEN Panicked("failed to get env var")
    ELSE Returned(WhenFalse(l.inherit_env, "--clearenv")
                  \o Flatten([i \in 1..Len(bubCalls) |->
                        IF bubCalls[i][1] = "mount"
                        THEN ApplyArg(bubCalls[i][2])
                        ELSE SetenvArgs(env, <<bubCalls[i][2]>>)])
                  \o BubFlagArgs(l))

\* a command() that passes a configured hostname on to bwrap
BubCommandWithHostname(env, l) ==
    IF EnvPanics(env, l.env)
    THEN Panicked("failed to get env var")
    ELSE Returned(MountArgs(l.mounts)
                  \o WhenFalse(l.inherit_env, "--clearenv")
                  \o SetenvArgs(env, l.env)
                  \o BubFlagArgs(l)
                  \o (IF IsSome(l.hostname)
                      THEN <<"--hostname", Unwrap(l.hostname)>> ELSE << >>))

\* BubLauncher::command
BubCommand(env, l) ==
    IF EnvPanics(env, l.env)
    THEN Panicked("failed to get env var")
    ELSE Returned(MountArgs(l.mounts)
                  \o WhenFalse(l.inherit_env, "--clearenv")
                  \o SetenvArgs(env, l.env)
                  \o BubFlagArgs(l))

BubBuilding == bubResult = Pending
BubItems == Len(bub.mounts) + Len(bub.env)

\* BubLauncher::mount
BubMount(m) ==
    /\ BubBuilding
    /\ BubItems < MaxBubItems
    /\ bub' = [bub EXCEPT !.mounts = Append(@, m)]
    /\ bubCalls' = Append(bubCalls, <<"mount", m>>)
    /\ UNCHANGED <<bubResult, bubSpawned>>
    /\ UNCHANGED bubOthers

\* BubLauncher::env
BubEnv(e) ==
    /\ BubBuilding
    /\ BubItems < MaxBubItems
    /\ bub' = [bub EXCEPT !.env = Append(@, e)]
    /\ bubCalls' = Append(bubCalls, <<"env", e>>)
    /\ UNCHANGED <<bubResult, bubSpawned>>
    /\ UNCHANGED bubOthers

\* BubLauncher::inherit_env
BubInheritEnv(inherit) ==
    /\ BubBuilding
    /\ bub' = [bub EXCEPT !.inherit_env = inherit]
    /\ UNCHANGED <<bubResult, bubSpawned, bubCalls>>
    /\ UNCHANGED bubOthers

\* BubLauncher::hostname
BubHostname(h) ==
    /\ BubBuilding
    /\ bub' = [bub EXCEPT !.hostname = Some(h)]
    /\ UNCHANGED <<bubResult, bubSpawned, bubCalls>>
    /\ UNCHANGED bubOthers

\* BubLauncher::no_hostname
BubNoHostname ==
    /\ BubBuilding
    /\ bub' = [bub EXCEPT !.hostname = None]
    /\ UNCHANGED <<bubResult, bubSpawned, bubCalls>>
    /\ UNCHANGED bubOthers

\* the caller translates: let mut cmd = l.command()
BubTranslate ==
    /\ BubBuilding
    /\ bubResult' = BubCommand(hostenv, bub)
    /\ UNCHANGED <<bub, bubSpawned, bubCalls>>
    /\ UNCHANGED bubOthers

\* the caller spawns the Command it was handed; a panic unwinds past it
BubSpawn ==
    /\ bubResult.kind = "Command"
    /\ ~bubSpawned
    /\ bubSpawned' = TRUE
    /\ UNCHANGED <<bub, bubResult, bubCalls>>
    /\ UNCHANGED bubOthers

\* the environment the translating process runs in
HostEnvInit ==
    hostenv = [n \in EnvNames |->
                 CASE n = "HOME" -> Some("/home/me")
                   [] n = "LANG" -> None
                   [] n = "DISPLAY" -> NotUnicode]

BubInit ==
    /\ bub = BubDefault
    /\ bubResult = Pending
    /\ bubSpawned = FALSE
    /\ bubCalls = << >>

(***************************************************************************)
(* sandbox::X11Sandbox                                                     *)
(***************************************************************************)
X11Sandboxes == {"DEFAULT", "XEPHYR", "XORG", "XPRA", "XVFB"}

\* X11Sandbox::flag
X11Flag(x) ==
    CASE x = "DEFAULT" -> "--x11"
      [] x = "XEPHYR"  -> "--x11=xephyr"
      [] x = "XORG"    -> "--x11=xorg"
      [] x = "XPRA"    -> "--x11-xpra"
      [] x = "XVFB"    -> "--x11-xvfb"

(***************************************************************************)
(* sandbox::FirejailLauncher                                               *)
(***************************************************************************)
FjPaths == {"/cellar", "/home/me"}
FjProfiles == {"/etc/firejail/wine.profile"}

\* the pub bool fields, in declaration order
FjBoolFields ==
    <<"private_tmp", "private_cache", "no3d", "nodbus", "nodvd", "nogroups",
      "nonewprivs", "noroot", "nosound", "novideo", "nou2f", "seccomp">>

\* impl Default for FirejailLauncher
FjDefault ==
    [ firejail_exec |-> "/usr/bin/firejail",
      whitelists |-> << >>, blacklists |-> << >>,
      profile |-> None,
      private_tmp |-> TRUE, private_cache |-> TRUE,
      no3d |-> FALSE, nodbus |-> TRUE, nodvd |-> TRUE, nogroups |-> TRUE,
      nonewprivs |-> TRUE, noroot |-> TRUE, nosound |-> FALSE,
      novideo |-> FALSE, nou2f |-> TRUE,
      seccomp |-> TRUE,
      x11 |-> None ]

\* map(|x| format!("--whitelist={}", x.display())).for_each(|x| cmd.arg(x))
FjPathArgs(prefix, paths) == [i \in 1..Len(paths) |-> prefix \o paths[i]]

\* if let Some(profile) = self.profile { --profile=.. } else { --noprofile }
FjProfileArgs(profile) ==
    IF IsSome(profile)
    THEN <<"--profile=" \o Unwrap(profile)>>
    ELSE <<"--noprofile">>

\* if let Some(x11) = self.x11 { cmd.arg(x11.flag()) }
FjX11Args(x11) == IF IsSome(x11) THEN <<X11Flag(Unwrap(x11))>> ELSE << >>

\* apply_bool!(property, flag) and apply_bool!(flag)
ApplyBool(l, property, flag) == IF l[property] THEN <<flag>> ELSE << >>
ApplyBoolIdent(l, flag) == ApplyBool(l, flag, "--" \o flag)

\* the apply_bool! lines of command(), in source order
FjBoolArgs(l) ==
    ApplyBool(l, "private_tmp", "--private-tmp")
    \o ApplyBool(l, "private_cache", "--private-cache")
    \o ApplyBoolIdent(l, "no3d")
    \o ApplyBoolIdent(l, "nodbus")
    \o ApplyBoolIdent(l, "nodvd")
    \o ApplyBoolIdent(l, "nogroups")
    \o ApplyBoolIdent(l, "nonewprivs")
    \o ApplyBoolIdent(l, "noroot")
    \o ApplyBoolIdent(l, "nosound")
    \o ApplyBoolIdent(l, "novideo")
    \o ApplyBoolIdent(l, "nou2f")
    \o ApplyBoolIdent(l, "seccomp")

\* a command() that selects the profile before the path lists
FirejailCommandProfileFirst(l) ==
    Returned(FjProfileArgs(l.profile)
             \o FjPathArgs("--whitelist=", l.whitelists)
             \o FjPathArgs("--blacklist=", l.blacklists)
             \o FjX11Args(l.x11)
             \o FjBoolArgs(l))

\* a command() that takes a default profile from $HOME when none is set
FirejailCommandHomeProfile(l) ==
    Returned(FjPathArgs("--whitelist=", l.whitelists)
             \o FjPathArgs("--blacklist=", l.blacklists)
             \o (IF IsSome(l.profile) \/ ~EnvVarLookup(hostenv, "HOME").ok
                 THEN FjProfileArgs(l.profile)
                 ELSE <<"--profile=" \o EnvVarLookup(hostenv, "HOME").val>>)
             \o FjX11Args(l.x11)
             \o FjBoolArgs(l))

\* FirejailLauncher::command
FirejailCommand(l) ==
    Returned(FjPathArgs("--whitelist=", l.whitelists)
             \o FjPathArgs("--blacklist=", l.blacklists)
             \o FjProfileArgs(l.profile)
             \o FjX11Args(l.x11)
             \o FjBoolArgs(l))

FjBuilding == fjResult = Pending
FjPathCount == Len(fj.whitelists) + Len(fj.blacklists)

\* FirejailLauncher::whitelist
FjWhitelist(path) ==
    /\ FjBuilding
    /\ FjPathCount < MaxFjPaths
    /\ fj' = [fj EXCEPT !.whitelists = Append(@, path)]
    /\ UNCHANGED <<fjWrites, fjResult, fjAgain, fjEnvFirst>>
    /\ UNCHANGED fjOthers

\* FirejailLauncher::blacklist
FjBlacklist(path) ==
    /\ FjBuilding
    /\ FjPathCount < MaxFjPaths
    /\ fj' = [fj EXCEPT !.blacklists = Append(@, path)]
    /\ UNCHANGED <<fjWrites, fjResult, fjAgain, fjEnvFirst>>
    /\ UNCHANGED fjOthers

\* FirejailLauncher::profile
FjProfile(profile) ==
    /\ FjBuilding
    /\ fj' = [fj EXCEPT !.profile = Some(profile)]
    /\ UNCHANGED <<fjWrites, fjResult, fjAgain, fjEnvFirst>>
    /\ UNCHANGED fjOthers

\* FirejailLauncher::no_profile
FjNoProfile ==
    /\ FjBuilding
    /\ fj' = [fj EXCEPT !.profile = None]
    /\ UNCHANGED <<fjWrites, fjResult, fjAgain, fjEnvFirst>>
    /\ UNCHANGED fjOthers

\* FirejailLauncher::private_tmp
FjPrivateTmp(private) ==
    /\ FjBuilding
    /\ fj' = [fj EXCEPT !.private_tmp = private]
    /\ UNCHANGED <<fjWrites, fjResult, fjAgain, fjEnvFirst>>
    /\ UNCHANGED fjOthers

\* an assignment to one of the pub bool fields: launcher.nosound = true
FjSetBool(field, b) ==
    /\ FjBuilding
    /\ fjWrites < MaxFjWrites
    /\ fj[field] # b
    /\ fj' = [fj EXCEPT ![field] = b]
    /\ fjWrites' = fjWrites + 1
    /\ UNCHANGED <<fjResult, fjAgain, fjEnvFirst>>
    /\ UNCHANGED fjOthers

\* an assignment to the pub field x11
FjSetX11(x11) ==
    /\ FjBuilding
    /\ fjWrites < MaxFjWrites
    /\ fj.x11 # x11
    /\ fj' = [fj EXCEPT !.x11 = x11]
    /\ fjWrites' = fjWrites + 1
    /\ UNCHANGED <<fjResult, fjAgain, fjEnvFirst>>
    /\ UNCHANGED fjOthers

\* the caller translates: let mut cmd = launcher.command()
FjTranslate ==
    /\ FjBuilding
    /\ fjResult' = FirejailCommand(fj)
    /\ fjEnvFirst' = hostenv
    /\ UNCHANGED <<fj, fjWrites, fjAgain>>
    /\ UNCHANGED fjOthers

\* a second launcher with the same fields is translated, later
FjTranslateAgain ==
    /\ fjResult # Pending
    /\ fjAgain = Pending
    /\ fjAgain' = FirejailCommand(fj)
    /\ UNCHANGED <<fj, fjWrites, fjResult, fjEnvFirst>>
    /\ UNCHANGED fjOthers

\* the environment of the translating process changes between translations
HostSetVar(n, v) ==
    /\ hostenv[n] # v
    /\ hostenv' = [hostenv EXCEPT ![n] = v]
    /\ UNCHANGED hostOthers

FjInit ==
    /\ fj = FjDefault
    /\ fjWrites = 0
    /\ fjResult = Pending
    /\ fjAgain = Pending
    /\ fjEnvFirst = hostenv

(***************************************************************************)
(* sandbox::nsjail::NSMount and NSSymlink                                  *)
(***************************************************************************)
\* NSMount::bind: a bind mount that is readwrite and mandatory
NSMountBind(src, dest) ==
    [ type |-> <<"BindMount", src, dest>>,
      readwrite |-> TRUE, mandatory |-> TRUE, noexec |-> FALSE ]

\* NSMount::readonly
NSMountReadonly(src, dest) ==
    [NSMountBind(src, dest) EXCEPT !.readwrite = FALSE]

\* NSMount::temp
NSMountTemp(dest) ==
    [ type |-> <<"TmpFs", dest>>,
      readwrite |-> TRUE, mandatory |-> TRUE, noexec |-> FALSE ]

\* NSMount::not_mandatory
NotMandatory(m) == [m EXCEPT !.mandatory = FALSE]

\* NSSymlink::new
NSSymlinkNew(src, dest) == [src |-> src, dest |-> dest]

\* format!("{}", b) of a bool
BoolStr(b) == IF b THEN "true" ELSE "false"

\* NSMount::into_proto_text: the bytes of one mount block
NSMountProtoText(m) ==
    "mount { "
    \o "rw: " \o BoolStr(m.readwrite) \o " "
    \o "mandatory: " \o BoolStr(m.mandatory) \o " "
    \o "noexec: " \o BoolStr(m.noexec) \o " "
    \o (IF m.type[1] = "BindMount"
        THEN "src: \"" \o m.type[2] \o "\" "
             \o "dst: \"" \o m.type[3] \o "\" "
             \o "is_bind: true "
        ELSE "dst: \"" \o m.type[2] \o "\" "
             \o "fstype: \"tmpfs\" ")
    \o "}\n"

\* NSSymlink::into_proto_text: the bytes of one symlink block
NSSymlinkProtoText(link) ==
    "mount { "
    \o "src: \"" \o link.src \o "\" "
    \o "dst: \"" \o link.dest \o "\" "
    \o "is_symlink: true "
    \o "}\n"

(***************************************************************************)
(* sandbox::nsjail::NSEnvVar                                               *)
(***************************************************************************)
NSKeep(name) == <<"Keep", name>>
NSSet(key, value) == <<"Set", key, value>>

\* a to_arg that resolves Keep against the translating process, as
\* EnvVar::to_key_value does for Pass
NSEnvToArgResolved(e) ==
    IF e[1] = "Keep"
    THEN <<"--env", e[2] \o "=" \o EnvVarLookup(hostenv, e[2]).val>>
    ELSE <<"--env", e[2] \o "=" \o e[3]>>

\* NSEnvVar::to_arg
NSEnvToArg(e) ==
    IF e[1] = "Keep"
    THEN <<"--env", e[2]>>
    ELSE <<"--env", e[2] \o "=" \o e[3]>>

(***************************************************************************)
(* sandbox::nsjail::NSJail                                                 *)
(***************************************************************************)
NsDefaultUser == 1000
NsDefaultGroup == 984

\* u64::to_string
Digit(d) ==
    CASE d = 0 -> "0" [] d = 1 -> "1" [] d = 2 -> "2" [] d = 3 -> "3"
      [] d = 4 -> "4" [] d = 5 -> "5" [] d = 6 -> "6" [] d = 7 -> "7"
      [] d = 8 -> "8" [] d = 9 -> "9"
RECURSIVE U64ToString(_)
U64ToString(n) == IF n < 10 THEN Digit(n) ELSE U64ToString(n \div 10) \o Digit(n % 10)

\* impl Default for NSJail
NSJailDefault ==
    [ mounts |-> << >>, links |-> << >>, env |-> << >>,
      user |-> NsDefaultUser, group |-> NsDefaultGroup ]

\* the mounts, symlinks and environment actions the builder is given
NsMounts ==
    { NSMountBind("/usr", "/usr"),
      NSMountReadonly("/etc", "/etc"),
      NotMandatory(NSMountTemp("/tmp")) }
NsLinks == { NSSymlinkNew("/usr/bin", "/bin"), NSSymlinkNew("/usr/lib", "/lib") }
NsEnvVars == { NSKeep("DISPLAY"), NSSet("HOME", "/home") }

\* the chunks command() hands to write_all, in the order it does
NsBlocks(l) ==
    [i \in 1..Len(l.mounts) |-> NSMountProtoText(l.mounts[i])]
    \o [i \in 1..Len(l.links) |-> NSSymlinkProtoText(l.links[i])]

\* the arguments command() adds
NsArgs(l) ==
    <<"--config", "./jail.proto">>
    \o <<"--user", U64ToString(l.user)>>
    \o <<"--group", U64ToString(l.group)>>
    \o Flatten([i \in 1..Len(l.env) |-> NSEnvToArg(l.env[i])])
    \o <<"--hostname", "vanilla">>
    \o <<"--disable_rlimits">>
    \o <<"--disable_no_new_privs">>
    \o <<"--keep_caps">>
    \o <<"--">>

\* an open() that appends to the file it finds
OpenAppend(file) == IF file = None THEN Some(<< >>) ELSE file

\* OpenOptions::new().write(true).truncate(true).create(true).open(..)
OpenTruncate(file) == Some(<< >>)

\* every open and write_all of the call succeeds
NoFault == <<"none">>

\* the filesystem faults one call of command() can meet: none, the open
\* fails, or the write_all of chunk k fails
NsFaults(l) ==
    {NoFault, <<"open">>} \cup {<<"write", k>> : k \in 1..Len(NsBlocks(l))}

\* a command() that ignores the result of write_all (let _ = ...): a failed
\* write loses that chunk and the Command is returned all the same
NSJailCommandIgnoreWrite(l, file, fault) ==
    CASE fault[1] = "open" ->
            [ result |-> Panicked("called Result::unwrap() on an Err value"),
              file |-> file ]
      [] fault[1] = "write" ->
            [ result |-> Returned(NsArgs(l)),
              file |-> Some(Unwrap(OpenTruncate(file))
                            \o SubSeq(NsBlocks(l), 1, fault[2] - 1)
                            \o SubSeq(NsBlocks(l), fault[2] + 1,
                                      Len(NsBlocks(l)))) ]
      [] OTHER ->
            [ result |-> Returned(NsArgs(l)),
              file |-> Some(Unwrap(OpenTruncate(file)) \o NsBlocks(l)) ]

\* NSJail::command under a fault: the outcome and the file it leaves.  A
\* failed open or write_all is unwrapped and panics; the chunks written
\* before the failing one stay in the file.
NSJailCommand(l, file, fault) ==
    CASE fault[1] = "open" ->
            [ result |-> Panicked("called Result::unwrap() on an Err value"),
              file |-> file ]
      [] fault[1] = "write" ->
            [ result |-> Panicked("called Result::unwrap() on an Err value"),
              file |-> Some(Unwrap(OpenTruncate(file))
                            \o SubSeq(NsBlocks(l), 1, fault[2] - 1)) ]
      [] OTHER ->
            [ result |-> Returned(NsArgs(l)),
              file |-> Some(Unwrap(OpenTruncate(file)) \o NsBlocks(l)) ]

NsBuilding == nsResult = Pending
NsItems == Len(ns.mounts) + Len(ns.links) + Len(ns.env)

\* NSJail::mount
NsMount(mount) ==
    /\ NsBuilding
    /\ NsItems < MaxNsItems
    /\ ns' = [ns EXCEPT !.mounts = Append(@, mount)]
    /\ UNCHANGED <<nsResult, nsSpawned, jailProto, jailProtoBefore, nsFault>>
    /\ UNCHANGED nsOthers

\* NSJail::symlink
NsSymlink(link) ==
    /\ NsBuilding
    /\ NsItems < MaxNsItems
    /\ ns' = [ns EXCEPT !.links = Append(@, link)]
    /\ UNCHANGED <<nsResult, nsSpawned, jailProto, jailProtoBefore, nsFault>>
    /\ UNCHANGED nsOthers

\* NSJail::env
NsEnv(var) ==
    /\ NsBuilding
    /\ NsItems < MaxNsItems
    /\ ns' = [ns EXCEPT !.env = Append(@, var)]
    /\ UNCHANGED <<nsResult, nsSpawned, jailProto, jailProtoBefore, nsFault>>
    /\ UNCHANGED nsOthers

\* the caller translates: let mut cmd = jail.command()
NsTranslate ==
    /\ NsBuilding
    /\ \E fault \in NsFaults(ns) :
          LET r == NSJailCommand(ns, jailProto, fault)
          IN  /\ nsResult' = r.result
              /\ jailProto' = r.file
              /\ nsFault' = fault
    /\ jailProtoBefore' = jailProto
    /\ UNCHANGED <<ns, nsSpawned>>
    /\ UNCHANGED nsOthers

\* the caller spawns the Command it was handed; a panic unwinds past it
NsSpawn ==
    /\ nsResult.kind = "Command"
    /\ ~nsSpawned
    /\ nsSpawned' = TRUE
    /\ UNCHANGED <<ns, nsResult, jailProto, jailProtoBefore, nsFault>>
    /\ UNCHANGED nsOthers

\* the next launch from the same working directory starts from a new
\* NSJail::default(); ./jail.proto stays as the last launch left it
NsNextLaunch ==
    /\ nsResult # Pending
    /\ ns' = NSJailDefault
    /\ nsResult' = Pending
    /\ nsSpawned' = FALSE
    /\ jailProtoBefore' = None
    /\ nsFault' = NoFault
    /\ UNCHANGED jailProto
    /\ UNCHANGED nsOthers

NsInit ==
    /\ ns = NSJailDefault
    /\ nsResult = Pending
    /\ nsSpawned = FALSE
    /\ jailProto = None
    /\ jailProtoBefore = None
    /\ nsFault = NoFault

(***************************************************************************)
(* The reaper protocol.  Here a String is the sequence of its UTF-8 bytes, *)
(* so that the wire format can be written out byte by byte.                *)
(***************************************************************************)
Byte == 0..255

\* "t": a program that exists; "x": a path with no program behind it
ExecPresent == <<116>>
ExecMissing == <<120>>
\* "a", "b"
ArgStrings == {<<97>>, <<98>>}
\* Pass("H"), KeyValue("H", "v")
RpEnvVars == {<<"Pass", <<72>>>>, <<"KeyValue", <<72>>, <<118>>>>}

\* the sequences over S of length n, and of length at most n
RECURSIVE SeqsOfLen(_, _)
SeqsOfLen(S, n) ==
    IF n = 0 THEN {<< >>}
    ELSE {Append(q, x) : q \in SeqsOfLen(S, n - 1), x \in S}
SeqsUpTo(S, n) == UNION {SeqsOfLen(S, k) : k \in 0..n}

\* ReaperCommand::Execute { exec, args, env }
Execute(exec, args, env) == [exec |-> exec, args |-> args, env |-> env]

\* the commands the host dispatches
ReaperCommands ==
    UNION { { Execute(exec, args, env) :
                exec \in {ExecPresent, ExecMissing},
                args \in SeqsOfLen(ArgStrings, na),
                env \in SeqsUpTo(RpEnvVars, MaxRpItems - na) } :
            na \in 0..MaxRpItems }

(***************************************************************************)
(* bincode, as serialize_into and deserialize_from configure it: fixed     *)
(* width little-endian integers, a u32 variant index for an enum, a u64    *)
(* length before a String or a Vec, trailing bytes allowed.                *)
(***************************************************************************)
Pow256(i) == CASE i = 0 -> 1 [] i = 1 -> 256 [] i = 2 -> 256 * 256
               [] i = 3 -> 256 * 256 * 256

\* n.to_le_bytes() for a u32 and for a u64 (n is below 2^31 in the model)
U32LE(n) == [i \in 1..4 |-> (n \div Pow256(i - 1)) % 256]
U64LE(n) == [i \in 1..8 |-> IF i <= 4 THEN (n \div Pow256(i - 1)) % 256 ELSE 0]

\* Serialize for String: the length, then the bytes
EncodeString(str) == U64LE(Len(str)) \o str

\* Serialize for Vec<String>
EncodeStrings(v) ==
    U64LE(Len(v)) \o Flatten([i \in 1..Len(v) |-> EncodeString(v[i])])

\* a derived Serialize for EnvVar that writes variant index 0 for both
EncodeEnvVarOneTag(e) ==
    IF e[1] = "Pass"
    THEN U32LE(0) \o EncodeString(e[2])
    ELSE U32LE(0) \o EncodeString(e[2]) \o EncodeString(e[3])

\* #[derive(Serialize)] for EnvVar: the variant index, then the fields
EncodeEnvVar(e) ==
    IF e[1] = "Pass"
    THEN U32LE(0) \o EncodeString(e[2])
    ELSE U32LE(1) \o EncodeString(e[2]) \o EncodeString(e[3])

\* Serialize for Vec<EnvVar>
EncodeEnvVars(v) ==
    U64LE(Len(v)) \o Flatten([i \in 1..Len(v) |-> EncodeEnvVar(v[i])])

\* ReaperCommand::dispatch: bincode::serialize_into(writable, &self)
Dispatch(c) ==
    U32LE(0) \o EncodeString(c.exec) \o EncodeStrings(c.args)
    \o EncodeEnvVars(c.env)

\* the result of reading a value off the front of a byte stream
ReadOk(val, rest) == [kind |-> "ok", val |-> val, rest |-> rest]
ReadEof == [kind |-> "eof"]
ReadInvalid == [kind |-> "invalid"]

\* Read::read_exact of n bytes
ReadBytes(bytes, n) ==
    IF Len(bytes) < n THEN ReadEof
    ELSE ReadOk(SubSeq(bytes, 1, n), SubSeq(bytes, n + 1, Len(bytes)))

\* from_le_bytes.  A value of 65536 or more stands as 65536: every stream of
\* the model is shorter than that and no variant index is that large.
LEValue(bs) ==
    IF \E i \in 3..Len(bs) : bs[i] # 0 THEN 256 * 256
    ELSE bs[1] + 256 * bs[2]

\* the ? operator on a read: an error is passed on, a value goes to K
Then(read, K(_)) ==
    CHOOSE out \in { IF r.kind # "ok" THEN r ELSE K(r) : r \in {read} } : TRUE

ReadU32(bytes) ==
    Then(ReadBytes(bytes, 4), LAMBDA r : ReadOk(LEValue(r.val), r.rest))

ReadU64(bytes) ==
    Then(ReadBytes(bytes, 8), LAMBDA r : ReadOk(LEValue(r.val), r.rest))

\* str::from_utf8 on the bytes of the model: an ASCII byte is a character,
\* 255 occurs in no UTF-8 text
IsUtf8(bs) == \A i \in 1..Len(bs) : bs[i] < 128

\* Deserialize for String
ReadString(bytes) ==
    Then(ReadU64(bytes), LAMBDA n :
    Then(ReadBytes(n.rest, n.val), LAMBDA r :
        IF ~IsUtf8(r.val) THEN ReadInvalid ELSE r))

\* the n elements of a Vec<String>, one after the other
RECURSIVE ReadStringElems(_, _, _)
ReadStringElems(bytes, n, acc) ==
    IF n = 0 THEN ReadOk(acc, bytes)
    ELSE Then(ReadString(bytes), LAMBDA r :
            ReadStringElems(r.rest, n - 1, Append(acc, r.val)))

\* Deserialize for Vec<String>
ReadStrings(bytes) ==
    Then(ReadU64(bytes), LAMBDA n : ReadStringElems(n.rest, n.val, << >>))

\* #[derive(Deserialize)] for EnvVar
ReadEnvVar(bytes) ==
    Then(ReadU32(bytes), LAMBDA tag :
        IF tag.val = 0
        THEN Then(ReadString(tag.rest), LAMBDA k :
                ReadOk(<<"Pass", k.val>>, k.rest))
        ELSE IF tag.val = 1
        THEN Then(ReadString(tag.rest), LAMBDA k :
             Then(ReadString(k.rest), LAMBDA v :
                ReadOk(<<"KeyValue", k.val, v.val>>, v.rest)))
        ELSE ReadInvalid)

\* the n elements of a Vec<EnvVar>, one after the other
RECURSIVE ReadEnvVarElems(_, _, _)
ReadEnvVarElems(bytes, n, acc) ==
    IF n = 0 THEN ReadOk(acc, bytes)
    ELSE Then(ReadEnvVar(bytes), LAMBDA r :
            ReadEnvVarElems(r.rest, n - 1, Append(acc, r.val)))

\* Deserialize for Vec<EnvVar>
ReadEnvVars(bytes) ==
    Then(ReadU64(bytes), LAMBDA n : ReadEnvVarElems(n.rest, n.val, << >>))

\* bincode::deserialize_from::<_, ReaperCommand>(stdin)
DeserializeFrom(bytes) ==
    Then(ReadU32(bytes), LAMBDA tag :
        IF tag.val # 0 THEN ReadInvalid
        ELSE Then(ReadString(tag.rest), LAMBDA exec :
             Then(ReadStrings(exec.rest), LAMBDA args :
             Then(ReadEnvVars(args.rest), LAMBDA env :
                ReadOk(Execute(exec.val, args.val, env.val), env.rest)))))

(***************************************************************************)
(* The host side of the pipe.                                              *)
(***************************************************************************)
IsPrefix(p, q) == Len(p) <= Len(q) /\ SubSeq(q, 1, Len(p)) = p

\* the host dispatches c; n bytes of it have reached the pipe
HostDispatch(c, n) ==
    /\ rpCommand = None
    /\ ~stdinClosed
    /\ rpCommand' = Some(c)
    /\ wire' = SubSeq(Dispatch(c), 1, n)
    /\ UNCHANGED <<stdinClosed, reaper, target>>
    /\ UNCHANGED rpOthers

\* the rest of the dispatched bytes reach the pipe
HostWriteRest ==
    /\ rpCommand # None
    /\ ~stdinClosed
    /\ IsPrefix(wire, Dispatch(Unwrap(rpCommand)))
    /\ wire # Dispatch(Unwrap(rpCommand))
    /\ wire' = Dispatch(Unwrap(rpCommand))
    /\ UNCHANGED <<rpCommand, stdinClosed, reaper, target>>
    /\ UNCHANGED rpOthers

\* the stream is malformed: one byte of it is not what dispatch wrote
WireCorrupt ==
    /\ rpCommand # None
    /\ reaper.state = "AwaitingCommand"
    /\ wire = Dispatch(Unwrap(rpCommand))
    /\ \E i \in 1..Len(wire), b \in {1, 255} :
          /\ wire[i] # b
          /\ wire' = [wire EXCEPT ![i] = b]
    /\ UNCHANGED <<rpCommand, stdinClosed, reaper, target>>
    /\ UNCHANGED rpOthers

\* the host drops the reaper's stdin (or dies): end of input
HostClose ==
    /\ ~stdinClosed
    /\ stdinClosed' = TRUE
    /\ UNCHANGED <<rpCommand, wire, reaper, target>>
    /\ UNCHANGED rpOthers

(***************************************************************************)
(* reaper::main                                                            *)
(***************************************************************************)
RustPanicExit == 101
TargetStatuses == {0, 1}

\* the environment the reaper itself runs in: H=s
ReaperEnv == {<<(<<72>>), (<<115>>)>>}

\* the program exists, so Command::status can spawn it
CanSpawn(exec) == exec = ExecPresent

\* Command::new(exec).args(args): what the child is started with.  No env()
\* call is made, so the child inherits the reaper's environment.
TargetOf(c) == [exec |-> c.exec, args |-> c.args, env |-> ReaperEnv]

\* a reaper that answers a failed decode by running a built-in command
ReaperDecodeFallback ==
    /\ reaper.state = "AwaitingCommand"
    /\ LET d == DeserializeFrom(wire)
       IN  /\ d.kind = "eof" => stdinClosed
           /\ reaper' =
                [reaper EXCEPT !.state = "Decoded", !.input = wire,
                               !.decoded =
                                   IF d.kind = "ok" THEN Some(d.val)
                                   ELSE Some(Execute(ExecPresent, << >>, << >>))]
    /\ UNCHANGED <<rpCommand, wire, stdinClosed, target>>
    /\ UNCHANGED rpOthers

\* a reaper whose read gives up instead of blocking: an incomplete command
\* on a stream that is still open is answered like an end of input
ReaperDecodeTimeout ==
    /\ reaper.state = "AwaitingCommand"
    /\ LET d == DeserializeFrom(wire)
       IN  reaper' =
                IF d.kind = "ok"
                THEN [reaper EXCEPT !.state = "Decoded",
                                    !.decoded = Some(d.val), !.input = wire]
                ELSE [reaper EXCEPT !.state = "Fatal", !.input = wire,
                                    !.exit = Some(RustPanicExit)]
    /\ UNCHANGED <<rpCommand, wire, stdinClosed, target>>
    /\ UNCHANGED rpOthers

\* bincode::deserialize_from(stdin).unwrap(): returns once a whole command
\* has been read, or fails on a malformed stream or at end of input; until
\* then the read blocks.
ReaperDecode ==
    /\ reaper.state = "AwaitingCommand"
    /\ LET d == DeserializeFrom(wire)
       IN  /\ d.kind = "eof" => stdinClosed
           /\ reaper' =
                IF d.kind = "ok"
                THEN [reaper EXCEPT !.state = "Decoded",
                                    !.decoded = Some(d.val), !.input = wire]
                ELSE [reaper EXCEPT !.state = "Fatal", !.input = wire,
                                    !.exit = Some(RustPanicExit)]
    /\ UNCHANGED <<rpCommand, wire, stdinClosed, target>>
    /\ UNCHANGED rpOthers

\* Command::new(exec).args(args).status(): spawn the target and wait for it;
\* a failed spawn is unwrapped and panics
ReaperExecute ==
    /\ reaper.state = "Decoded"
    /\ LET c == Unwrap(reaper.decoded)
       IN  IF CanSpawn(c.exec)
           THEN /\ target' = Some(TargetOf(c))
                /\ reaper' = [reaper EXCEPT !.state = "Executing"]
           ELSE /\ target' = target
                /\ reaper' = [reaper EXCEPT !.state = "Fatal",
                                            !.exit = Some(RustPanicExit)]
    /\ UNCHANGED <<rpCommand, wire, stdinClosed>>
    /\ UNCHANGED rpOthers

\* the target exits with some status; status() returns it, main drops it and
\* returns Ok(()), so the reaper exits 0
TargetExits(status) ==
    /\ reaper.state = "Executing"
    /\ reaper' = [reaper EXCEPT !.state = "Exited",
                                !.targetStatus = Some(status),
                                !.exit = Some(0)]
    /\ UNCHANGED <<rpCommand, wire, stdinClosed, target>>
    /\ UNCHANGED rpOthers

ReaperInit ==
    /\ rpCommand = None
    /\ wire = << >>
    /\ stdinClosed = FALSE
    /\ reaper = [ state |-> "AwaitingCommand", decoded |-> None,
                  input |-> << >>, targetStatus |-> None, exit |-> None ]
    /\ target = None

(***************************************************************************)
(* Two launches from the same working directory.  Each runs NSJail::command *)
(* one system call at a time: the open of ./jail.proto, one write_all per   *)
(* block, the return.  The file is its bytes, a string; every launch has    *)
(* its own file descriptor and so its own offset.                           *)
(***************************************************************************)
Launches == {1, 2}
Other(p) == 3 - p

\* the mounts and symlinks the two launchers are given: blocks of three
\* different lengths
RaceMounts == { NSMountBind("/usr", "/usr"), NotMandatory(NSMountTemp("/tmp")) }
RaceLinks == { NSSymlinkNew("/usr/bin", "/bin") }

\* n zero bytes, as they read back from a hole in a file (shown as ".")
RECURSIVE ZeroBytes(_)
ZeroBytes(n) == IF n <= 0 THEN "" ELSE "." \o ZeroBytes(n - 1)

\* the bytes of a sequence of chunks written one after the other
RECURSIVE JoinBlocks(_)
JoinBlocks(blocks) ==
    IF blocks = << >> THEN "" ELSE Head(blocks) \o JoinBlocks(Tail(blocks))

\* an open() without truncate(true): the bytes of an existing file stay
OpenKeepBytes(file) == IF file = None THEN Some("") ELSE file

\* open() with truncate(true) and create(true): the file exists and is empty
OpenTruncateBytes(file) == Some("")

\* write(fd, data) on a descriptor at offset off: the bytes land at off,
\* after a hole when the file is shorter, over what was there when it is not
WriteAt(bytes, off, data) ==
    (IF Len(bytes) >= off THEN SubSeq(bytes, 1, off)
     ELSE bytes \o ZeroBytes(off - Len(bytes)))
    \o data
    \o SubSeq(bytes, off + Len(data) + 1, Len(bytes))

LaunchBlocks(p) == NsBlocks(launch[p].jail)
LaunchItems(p) == Len(launch[p].jail.mounts) + Len(launch[p].jail.links)

\* NSJail::mount on the launcher of launch p
LaunchMount(p, mount) ==
    /\ launch[p].pc = "building"
    /\ LaunchItems(p) < MaxRaceBlocks
    /\ launch' = [launch EXCEPT ![p].jail.mounts = Append(@, mount)]
    /\ UNCHANGED protoFile
    /\ UNCHANGED raceOthers

\* NSJail::symlink on the launcher of launch p
LaunchSymlink(p, link) ==
    /\ launch[p].pc = "building"
    /\ LaunchItems(p) < MaxRaceBlocks
    /\ launch' = [launch EXCEPT ![p].jail.links = Append(@, link)]
    /\ UNCHANGED protoFile
    /\ UNCHANGED raceOthers

\* a file step of launch p falls into the other launch's window when that
\* launch has opened the file
Disturb(l, p) ==
    IF l[Other(p)].pc # "building"
    THEN [l EXCEPT ![Other(p)].disturbed = TRUE]
    ELSE l

\* command() of launch p: the open of ./jail.proto
LaunchOpen(p) ==
    /\ launch[p].pc = "building"
    /\ protoFile' = OpenTruncateBytes(protoFile)
    /\ launch' = Disturb([launch EXCEPT ![p].pc = "writing", ![p].offset = 0], p)
    /\ UNCHANGED raceOthers

\* command() of launch p: the write_all of its next block
LaunchWrite(p) ==
    /\ launch[p].pc = "writing"
    /\ launch[p].written < Len(LaunchBlocks(p))
    /\ LET data == LaunchBlocks(p)[launch[p].written + 1]
       IN  /\ protoFile' = Some(WriteAt(Unwrap(protoFile), launch[p].offset, data))
           /\ launch' = Disturb([launch EXCEPT
                                    ![p].written = @ + 1,
                                    ![p].offset = @ + Len(data)], p)
    /\ UNCHANGED raceOthers

\* command() of launch p: every block is written, the Command is returned
LaunchReturn(p) ==
    /\ launch[p].pc = "writing"
    /\ launch[p].written = Len(LaunchBlocks(p))
    /\ launch' = [launch EXCEPT ![p].pc = "returned",
                                ![p].result = Returned(NsArgs(launch[p].jail))]
    /\ UNCHANGED protoFile
    /\ UNCHANGED raceOthers

RaceInit ==
    /\ launch = [p \in Launches |->
                    [ jail |-> NSJailDefault, pc |-> "building", offset |-> 0,
                      written |-> 0, disturbed |-> FALSE, result |-> Pending ]]
    /\ protoFile = None

Init == HostEnvInit /\ BubInit /\ FjInit /\ NsInit /\ ReaperInit /\ RaceInit

BubNext ==
    \/ \E m \in BubMounts : BubMount(m)
    \/ \E e \in BubEnvVars : BubEnv(e)
    \/ \E b \in BOOLEAN : BubInheritEnv(b)
    \/ \E h \in Hostnames : BubHostname(h)
    \/ BubNoHostname
    \/ BubTranslate
    \/ BubSpawn

SpecBub == Init /\ [][BubNext]_vars

FjNext ==
    \/ \E path \in FjPaths : FjWhitelist(path)
    \/ \E path \in FjPaths : FjBlacklist(path)
    \/ \E profile \in FjProfiles : FjProfile(profile)
    \/ FjNoProfile
    \/ \E b \in BOOLEAN : FjPrivateTmp(b)
    \/ \E i \in 1..Len(FjBoolFields), b \in BOOLEAN :
          FjSetBool(FjBoolFields[i], b)
    \/ \E x \in X11Sandboxes : FjSetX11(Some(x))
    \/ FjSetX11(None)
    \/ FjTranslate
    \/ FjTranslateAgain
    \/ \E v \in {None, Some("/home/me")} : HostSetVar("HOME", v)

SpecFirejail == Init /\ [][FjNext]_vars

NsNext ==
    \/ \E mount \in NsMounts : NsMount(mount)
    \/ \E link \in NsLinks : NsSymlink(link)
    \/ \E var \in NsEnvVars : NsEnv(var)
    \/ NsTranslate
    \/ NsSpawn
    \/ NsNextLaunch

SpecNsjail == Init /\ [][NsNext]_vars

ReaperNext ==
    \/ \E c \in ReaperCommands : \E n \in 0..Len(Dispatch(c)) : HostDispatch(c, n)
    \/ HostWriteRest
    \/ WireCorrupt
    \/ HostClose
    \/ ReaperDecode
    \/ ReaperExecute
    \/ \E status \in TargetStatuses : TargetExits(status)

SpecReaper == Init /\ [][ReaperNext]_vars

\* the reaper is a running process: a read that can return does return, and
\* main goes on to start the target
SpecReaperFair ==
    Init /\ [][ReaperNext]_vars
    /\ WF_vars(ReaperDecode) /\ WF_vars(ReaperExecute)

RaceNext ==
    \/ \E p \in Launches, mount \in RaceMounts : LaunchMount(p, mount)
    \/ \E p \in Launches, link \in RaceLinks : LaunchSymlink(p, link)
    \/ \E p \in Launches : LaunchOpen(p)
    \/ \E p \in Launches : LaunchWrite(p)
    \/ \E p \in Launches : LaunchReturn(p)

SpecNsjailRace == Init /\ [][RaceNext]_vars

(***************************************************************************)
(* Reading an argument vector back, independently of the translator.       *)
(***************************************************************************)
Contains(args, a) == \E i \in 1..Len(args) : args[i] = a
Positions(args, a) == {i \in 1..Len(args) : args[i] = a}

\* the bwrap mount flags and the BubMount variant each stands for
BwrapMountFlag ==
    [ f \in {"--dev-bind", "--ro-bind", "--bind", "--symlink", "--tmpfs",
             "--proc", "--dir", "--file"} |->
        CASE f = "--dev-bind" -> [variant |-> "DevBind", operands |-> 2]
          [] f = "--ro-bind"  -> [variant |-> "BindRO", operands |-> 2]
          [] f = "--bind"     -> [variant |-> "BindRW", operands |-> 2]
          [] f = "--symlink"  -> [variant |-> "Symlink", operands |-> 2]
          [] f = "--tmpfs"    -> [variant |-> "TmpFs", operands |-> 1]
          [] f = "--proc"     -> [variant |-> "Proc", operands |-> 1]
          [] f = "--dir"      -> [variant |-> "Dir", operands |-> 1]
          [] f = "--file"     -> [variant |-> "File", operands |-> 2] ]

\* the mounts bwrap would apply, left to right, given an argument vector
RECURSIVE ParseMounts(_)
ParseMounts(args) ==
    IF args = << >> THEN << >>
    ELSE IF Head(args) \in DOMAIN BwrapMountFlag
              /\ Len(args) > BwrapMountFlag[Head(args)].operands
         THEN LET d == BwrapMountFlag[Head(args)]
              IN  <<(<<d.variant>> \o SubSeq(args, 2, 1 + d.operands))>>
                  \o ParseMounts(SubSeq(args, 2 + d.operands, Len(args)))
         ELSE ParseMounts(Tail(args))

\* C1: whenever BubLauncher::command returns, reading the mount flags of the
\* argument vector from left to right gives back exactly the mounts in the
\* order mount() added them (none dropped, duplicated or reordered), and when
\* inherit_env is false "--clearenv" is present and stands at a lower index
\* than every "--setenv".
C1_MountOrderAndClearenvFirst ==
    bubResult.kind = "Command" =>
        /\ ParseMounts(bubResult.args) = bub.mounts
        /\ ~bub.inherit_env =>
              /\ Cardinality(Positions(bubResult.args, "--clearenv")) = 1
              /\ \A i \in Positions(bubResult.args, "--clearenv") :
                    \A j \in Positions(bubResult.args, "--setenv") : i < j

\* C1 witness: a returned command with two different mounts, two environment
\* actions and a cleared environment
C1_Witness ==
    /\ bubResult.kind = "Command"
    /\ Len(bub.mounts) >= 2 /\ bub.mounts[1] # bub.mounts[2]
    /\ Len(bub.env) >= 1
    /\ ~bub.inherit_env
    /\ Contains(bubResult.args, "--setenv")

\* a Pass entry of the launcher names a variable that is not set
PassAbsent ==
    \E i \in 1..Len(bub.env) :
        bub.env[i][1] = "Pass" /\ hostenv[bub.env[i][2]] = None

\* C2 as stated: translating a launcher with a Pass entry whose variable is
\* absent hands the caller an error value, MissingHostVariable, and nothing is
\* spawned.
C2_ReturnsMissingHostVariable ==
    (bubResult # Pending /\ PassAbsent) =>
        /\ bubResult.kind = "Err"
        /\ bubResult.err = "MissingHostVariable"
        /\ ~bubSpawned

\* C2 amended: translating a launcher with a Pass entry whose variable is
\* absent panics with "failed to get env var"; no Command is returned to the
\* caller, so nothing is spawned.
C2_PanicsWithoutInvocation ==
    (bubResult # Pending /\ PassAbsent) =>
        /\ bubResult.kind = "panic"
        /\ bubResult.msg = "failed to get env var"
        /\ ~bubSpawned

\* C2 witness: a launcher with mounts and a resolvable entry before the
\* absent Pass entry has been translated
C2_Witness ==
    /\ bubResult # Pending
    /\ PassAbsent
    /\ Len(bub.mounts) >= 1
    /\ Len(bub.env) >= 2 /\ bub.env[1][1] = "KeyValue"

\* C10: a BubLauncher only ever has the default isolation fields (pid, net,
\* uts, cgroup isolation, as-pid-1, new-session and die-with-parent on; user
\* and ipc isolation off), and translating the unmodified default launcher
\* emits exactly the seven matching flags and neither --unshare-user nor
\* --unshare-ipc.
C10_DefaultIsolation ==
    /\ bub.unshare_pid /\ bub.unshare_net /\ bub.unshare_uts
    /\ bub.unshare_cgroups
    /\ bub.as_pid_1 /\ bub.new_session /\ bub.die_with_parent
    /\ ~bub.unshare_user /\ ~bub.unshare_ipc
    /\ (/\ bubResult.kind = "Command"
        /\ bub.mounts = << >> /\ bub.env = << >>
        /\ ~bub.inherit_env /\ bub.hostname = None)
       => /\ \A f \in {"--unshare-pid", "--unshare-net", "--unshare-uts",
                       "--unshare-cgroup", "--as-pid-1", "--new-session",
                       "--die-with-parent"} :
                Cardinality(Positions(bubResult.args, f)) = 1
          /\ ~Contains(bubResult.args, "--unshare-user")
          /\ ~Contains(bubResult.args, "--unshare-ipc")

\* C10 witness: the unmodified default launcher has been translated
C10_Witness ==
    /\ bubResult.kind = "Command"
    /\ bub.mounts = << >> /\ bub.env = << >>
    /\ ~bub.inherit_env /\ bub.hostname = None
    /\ Contains(bubResult.args, "--unshare-net")

(***************************************************************************)
(* Reading a firejail argument vector back.                                *)
(***************************************************************************)
IsWhitelistArg(a) == a \in {"--whitelist=" \o p : p \in FjPaths}
IsBlacklistArg(a) == a \in {"--blacklist=" \o p : p \in FjPaths}
IsProfileArg(a) ==
    a = "--noprofile" \/ a \in {"--profile=" \o p : p \in FjProfiles}
IsX11Arg(a) ==
    a \in {"--x11", "--x11=xephyr", "--x11=xorg", "--x11-xpra", "--x11-xvfb"}

\* the flag each pub bool field stands for, in the declared order
FirejailFlags ==
    <<"--private-tmp", "--private-cache", "--no3d", "--nodbus", "--nodvd",
      "--nogroups", "--nonewprivs", "--noroot", "--nosound", "--novideo",
      "--nou2f", "--seccomp">>

\* the place of an argument in the sequence the claim fixes
FjRank(a) ==
    CASE IsWhitelistArg(a) -> 1
      [] IsBlacklistArg(a) -> 2
      [] IsProfileArg(a) -> 3
      [] IsX11Arg(a) -> 4
      [] OTHER -> 4 + (CHOOSE k \in 1..Len(FirejailFlags) : FirejailFlags[k] = a)

\* C8: whenever FirejailLauncher::command returns, its arguments are the
\* whitelist entries in insertion order, then the blacklist entries in
\* insertion order, then exactly one profile argument ("--profile=<path>" when
\* a profile is set, "--noprofile" otherwise), then the x11 flag exactly when
\* x11 is set, then the flags of the bool fields that are true, each once, in
\* the declared order.
C8_FirejailArgumentOrder ==
    fjResult.kind = "Command" =>
        LET a == fjResult.args
        IN  /\ \A i \in 1..Len(a) :
                  \/ IsWhitelistArg(a[i]) \/ IsBlacklistArg(a[i])
                  \/ IsProfileArg(a[i]) \/ IsX11Arg(a[i])
                  \/ \E k \in 1..Len(FirejailFlags) : FirejailFlags[k] = a[i]
            /\ \A i \in 1..(Len(a) - 1) :
                  /\ FjRank(a[i]) <= FjRank(a[i + 1])
                  /\ FjRank(a[i]) >= 3 => FjRank(a[i]) < FjRank(a[i + 1])
            /\ SelectSeq(a, IsWhitelistArg)
                  = [i \in 1..Len(fj.whitelists) |->
                        "--whitelist=" \o fj.whitelists[i]]
            /\ SelectSeq(a, IsBlacklistArg)
                  = [i \in 1..Len(fj.blacklists) |->
                        "--blacklist=" \o fj.blacklists[i]]
            /\ SelectSeq(a, IsProfileArg)
                  = IF fj.profile = None THEN <<"--noprofile">>
                    ELSE <<"--profile=" \o fj.profile[1]>>
            /\ Len(SelectSeq(a, IsX11Arg)) = Len(fj.x11)
            /\ \A k \in 1..Len(FirejailFlags) :
                  Contains(a, FirejailFlags[k]) <=> fj[FjBoolFields[k]]

\* C8 witness: a launcher with a whitelist entry, a blacklist entry, a
\* profile and an x11 sandbox has been translated
C8_Witness ==
    /\ fjResult.kind = "Command"
    /\ Len(fj.whitelists) >= 1 /\ Len(fj.blacklists) >= 1
    /\ fj.profile # None /\ fj.x11 # None

BlocksIdentify ==
    /\ \A m1, m2 \in NsMounts :
          NSMountProtoText(m1) = NSMountProtoText(m2) => m1 = m2
    /\ \A l1, l2 \in NsLinks :
          NSSymlinkProtoText(l1) = NSSymlinkProtoText(l2) => l1 = l2
    /\ \A m \in NsMounts, l \in NsLinks :
          NSMountProtoText(m) # NSSymlinkProtoText(l)

\* C4: whenever NSJail::command returns, ./jail.proto holds exactly one block
\* per configured mount, in mount() order, followed by exactly one block per
\* configured symlink, in symlink() order, and nothing else: whatever the file
\* held before the call is gone.
C4_OneBlockEachInOrderTruncated ==
    nsResult.kind = "Command" =>
        /\ BlocksIdentify
        /\ jailProto # None
        /\ LET blocks == Unwrap(jailProto)
               nm == Len(ns.mounts)
           IN  /\ Len(blocks) = nm + Len(ns.links)
               /\ \A i \in 1..nm : blocks[i] = NSMountProtoText(ns.mounts[i])
               /\ \A i \in 1..Len(ns.links) :
                     blocks[nm + i] = NSSymlinkProtoText(ns.links[i])

\* C4 witness: command returned for a launcher with a mount and a symlink,
\* called when ./jail.proto already held the blocks of an earlier launch
C4_Witness ==
    /\ nsResult.kind = "Command"
    /\ Len(ns.mounts) >= 1 /\ Len(ns.links) >= 1
    /\ jailProtoBefore # None
    /\ Len(Unwrap(jailProtoBefore)) >= 1
    /\ jailProtoBefore # jailProto

(***************************************************************************)
(* The reaper protocol.                                                    *)
(***************************************************************************)
\* C3: decoding the bytes dispatch wrote for an Execute command gives the
\* command back: the same executable path, the same arguments in the same
\* order, the same environment entries in the same order, each with its
\* variant (Pass or KeyValue) and strings; and a reaper that read those bytes
\* holds exactly the command the host dispatched.
C3_DispatchDecodeRoundTrip ==
    rpCommand # None =>
        LET c == Unwrap(rpCommand)
            d == DeserializeFrom(Dispatch(c))
        IN  /\ d.kind = "ok"
            /\ d.rest = << >>
            /\ d.val.exec = c.exec
            /\ Len(d.val.args) = Len(c.args)
            /\ \A i \in 1..Len(c.args) : d.val.args[i] = c.args[i]
            /\ Len(d.val.env) = Len(c.env)
            /\ \A i \in 1..Len(c.env) : d.val.env[i] = c.env[i]
            /\ (reaper.state # "AwaitingCommand" /\ reaper.input = Dispatch(c))
                  => reaper.decoded = Some(c)

\* C3 witness: the reaper has decoded a dispatched command whose environment
\* holds a Pass entry and a KeyValue entry
C3_Witness ==
    /\ rpCommand # None
    /\ reaper.decoded = rpCommand
    /\ reaper.input = Dispatch(Unwrap(rpCommand))
    /\ Len(Unwrap(rpCommand).env) = 2
    /\ Unwrap(rpCommand).env[1][1] # Unwrap(rpCommand).env[2][1]

\* the stream ended before the whole command had arrived
Truncated(bytes) ==
    /\ rpCommand # None
    /\ IsPrefix(bytes, Dispatch(Unwrap(rpCommand)))
    /\ bytes # Dispatch(Unwrap(rpCommand))

\* C5: a truncated stream never decodes; when the bytes the reaper read do
\* not decode to a complete command the reaper is Fatal with a non-zero exit
\* code and has started no program; and a program is only ever started after
\* a complete command was decoded.
C5_DecodeFailureIsFatal ==
    /\ Truncated(wire) => DeserializeFrom(wire).kind = "eof"
    /\ (reaper.state # "AwaitingCommand"
        /\ DeserializeFrom(reaper.input).kind # "ok")
       => /\ reaper.state = "Fatal"
          /\ reaper.exit # None /\ Unwrap(reaper.exit) # 0
          /\ reaper.decoded = None
          /\ target = None
    /\ target # None
       => /\ DeserializeFrom(reaper.input).kind = "ok"
          /\ reaper.decoded = Some(DeserializeFrom(reaper.input).val)

\* C5 witness: the host dropped the stream part-way through the command and
\* the reaper has read it
C5_Witness ==
    /\ reaper.state = "Fatal"
    /\ Truncated(reaper.input)
    /\ Len(reaper.input) > 12
    /\ stdinClosed

\* C6 as stated: once the target has exited, the reaper exits with the
\* target's exit status.
C6_ExitStatusPropagated ==
    reaper.state = "Exited" => reaper.exit = reaper.targetStatus

\* the last entry for its name among the environment entries
LastForKey(env, i) == \A j \in (i + 1)..Len(env) : env[j][2] # env[i][2]

\* C7 as stated: the target runs the decoded executable with the decoded
\* arguments, and every environment entry of the command is applied to it: a
\* KeyValue entry binds its name to its value.
C7_CommandEnvApplied ==
    target # None =>
        LET c == Unwrap(reaper.decoded)
            t == Unwrap(target)
        IN  /\ t.exec = c.exec
            /\ t.args = c.args
            /\ \A i \in 1..Len(c.env) :
                  (c.env[i][1] = "KeyValue" /\ LastForKey(c.env, i))
                     => <<c.env[i][2], c.env[i][3]>> \in t.env

(***************************************************************************)
(* The end of an argument vector.                                          *)
(***************************************************************************)
Last(args) == args[Len(args)]
EndsWithSeparator(r) == Len(r.args) > 0 /\ Last(r.args) = "--"

\* C11 as stated: every Command a translator returns (BubLauncher::command,
\* FirejailLauncher::command, NSJail::command) has "--" as its last argument.
C11_EndsWithSeparator ==
    /\ bubResult.kind = "Command" => EndsWithSeparator(bubResult)
    /\ fjResult.kind = "Command" => EndsWithSeparator(fjResult)
    /\ nsResult.kind = "Command" => EndsWithSeparator(nsResult)

(***************************************************************************)
(* Process-info mounts in the generated configuration file.                *)
(***************************************************************************)
\* the string t occurs in the string s
HasSubstring(s, t) ==
    \E i \in 1..(Len(s) - Len(t) + 1) : SubSeq(s, i, i + Len(t) - 1) = t

\* a block that mounts a proc filesystem, or mounts something at /proc
IsProcBlock(block) ==
    \/ HasSubstring(block, "fstype: \"proc\"")
    \/ HasSubstring(block, "dst: \"/proc\"")

\* C12 as stated: whenever NSJail::command returns (no NSMount can be a proc
\* mount, so the caller configured none), ./jail.proto holds exactly one
\* process-info mount block and it is the first block of the file.
C12_ImplicitProcMount ==
    nsResult.kind = "Command" =>
        /\ jailProto # None
        /\ LET blocks == Unwrap(jailProto)
           IN  /\ Cardinality({i \in 1..Len(blocks) : IsProcBlock(blocks[i])}) = 1
               /\ Len(blocks) >= 1 /\ IsProcBlock(blocks[1])

(***************************************************************************)
(* Filesystem errors while the configuration file is written.              *)
(***************************************************************************)
\* C13 as stated: when opening or writing ./jail.proto fails, NSJail::command
\* hands the caller an error value, ConfigWriteFailed; no invocation is
\* returned and nothing is spawned.
C13_ReturnsConfigWriteFailed ==
    (nsResult # Pending /\ nsFault # NoFault) =>
        /\ nsResult.kind = "Err"
        /\ nsResult.err = "ConfigWriteFailed"
        /\ ~nsSpawned

\* C13 amended: when opening or writing ./jail.proto fails, NSJail::command
\* panics on the unwrap of the failed result; no Command is returned to the
\* caller, so nothing is spawned.
C13_FaultPanicsWithoutInvocation ==
    (nsResult # Pending /\ nsFault # NoFault) =>
        /\ nsResult.kind = "panic"
        /\ nsResult.msg = "called Result::unwrap() on an Err value"
        /\ ~nsSpawned

\* C13 witness: the write of the second block failed, after the first block
\* had been written
C13_Witness ==
    /\ nsResult # Pending
    /\ nsFault = <<"write", 2>>
    /\ jailProto # None /\ Len(Unwrap(jailProto)) = 1

(***************************************************************************)
(* Reading the environment assignments of a bwrap argument vector back.    *)
(***************************************************************************)
\* the number of operands bwrap reads after a mount flag; 0 for any other
\* argument
MountOperands(a) ==
    IF a \in {"--dev-bind", "--ro-bind", "--bind", "--symlink", "--file"} THEN 2
    ELSE IF a \in {"--tmpfs", "--proc", "--dir"} THEN 1
    ELSE 0

\* the (name, value) pairs bwrap would set, left to right
RECURSIVE ParseSetenv(_)
ParseSetenv(args) ==
    IF args = << >> THEN << >>
    ELSE IF MountOperands(Head(args)) > 0
              /\ Len(args) > MountOperands(Head(args))
         THEN ParseSetenv(SubSeq(args, 2 + MountOperands(Head(args)), Len(args)))
         ELSE IF Head(args) = "--setenv" /\ Len(args) >= 3
         THEN <<(<<args[2], args[3]>>)>> \o ParseSetenv(SubSeq(args, 4, Len(args)))
         ELSE ParseSetenv(Tail(args))

\* the pair an environment action stands for in the translating process
ExpectedPair(e) ==
    IF e[1] = "KeyValue" THEN <<e[2], e[3]>> ELSE <<e[2], hostenv[e[2]][1]>>

\* C14: whenever BubLauncher::command returns, the "--setenv name value"
\* triples of the argument vector, read left to right, are exactly the
\* environment actions in env() call order, one triple per action (entries
\* with the same name are neither merged, dropped nor reordered), so the last
\* triple for a name carries the value of the last action added for that name.
C14_OneSetenvPerActionInOrder ==
    bubResult.kind = "Command" =>
        LET pairs == ParseSetenv(bubResult.args)
        IN  /\ Len(pairs) = Len(bub.env)
            /\ Cardinality(Positions(bubResult.args, "--setenv")) = Len(bub.env)
            /\ \A i \in 1..Len(bub.env) : pairs[i] = ExpectedPair(bub.env[i])
            /\ \A i \in 1..Len(pairs) :
                  (\A j \in (i + 1)..Len(pairs) : pairs[j][1] # pairs[i][1])
                     => \E k \in 1..Len(bub.env) :
                           /\ LastForKey(bub.env, k)
                           /\ ExpectedPair(bub.env[k]) = pairs[i]

\* C14 witness: a returned command for a launcher whose environment actions
\* name the same variable more than once, with different values
C14_Witness ==
    /\ bubResult.kind = "Command"
    /\ Len(bub.env) >= 3
    /\ bub.env[1] = KeyValue("HOME", "/home")
    /\ bub.env[2] = Pass("HOME")
    /\ bub.env[3] = KeyValue("HOME", "/root")

(***************************************************************************)
(* Reading the flags of a bwrap argument vector back.                      *)
(***************************************************************************)
\* the arguments that are neither a mount group nor a --setenv triple
RECURSIVE ParseFlags(_)
ParseFlags(args) ==
    IF args = << >> THEN << >>
    ELSE IF MountOperands(Head(args)) > 0
              /\ Len(args) > MountOperands(Head(args))
         THEN ParseFlags(SubSeq(args, 2 + MountOperands(Head(args)), Len(args)))
         ELSE IF Head(args) = "--setenv" /\ Len(args) >= 3
         THEN ParseFlags(SubSeq(args, 4, Len(args)))
         ELSE <<Head(args)>> \o ParseFlags(Tail(args))

\* the boolean namespace and session fields of BubLauncher
BubBoolFields ==
    {"unshare_user", "unshare_ipc", "unshare_pid", "unshare_net",
     "unshare_uts", "unshare_cgroups", "as_pid_1", "new_session",
     "die_with_parent"}

\* the flag each boolean field of BubLauncher stands for
BubFieldFlag(f) ==
    CASE f = "unshare_user" -> "--unshare-user"
      [] f = "unshare_ipc" -> "--unshare-ipc"
      [] f = "unshare_pid" -> "--unshare-pid"
      [] f = "unshare_net" -> "--unshare-net"
      [] f = "unshare_uts" -> "--unshare-uts"
      [] f = "unshare_cgroups" -> "--unshare-cgroup"
      [] f = "as_pid_1" -> "--as-pid-1"
      [] f = "new_session" -> "--new-session"
      [] f = "die_with_parent" -> "--die-with-parent"

\* each of the nine flags is in the vector (once) exactly when its field of l
\* is true, and the vector holds no other flag apart from "--clearenv"
FlagsMatchFields(l, args) ==
    LET flags == ParseFlags(args)
    IN  /\ \A f \in BubBoolFields : Contains(flags, BubFieldFlag(f)) <=> l[f]
        /\ \A i, j \in 1..Len(flags) : flags[i] = flags[j] => i = j
        /\ \A i \in 1..Len(flags) :
              \/ flags[i] = "--clearenv"
              \/ \E f \in BubBoolFields : flags[i] = BubFieldFlag(f)

\* the launcher l with each of the fields in F given the other value
Flipped(l, F) ==
    [k \in DOMAIN l |-> IF k \in F THEN ~l[k] ELSE l[k]]

\* C15: whenever BubLauncher::command returns, each of the nine namespace and
\* session flags is in the argument vector (once) exactly when its field is
\* true, and the vector holds no other flag apart from "--clearenv": no
\* negative form of a namespace or session flag is ever emitted.  The same
\* holds for the translation of the launcher with all nine fields given the
\* other value and, for a launcher without mounts and environment actions,
\* with any one of them given the other value.
C15_FlagsIffFieldTrue ==
    bubResult.kind = "Command" =>
        /\ FlagsMatchFields(bub, bubResult.args)
        /\ \A F \in {BubBoolFields}
                    \cup (IF bubCalls = << >>
                          THEN {{f} : f \in BubBoolFields} ELSE {}) :
              LET l == Flipped(bub, F)
                  r == BubCommand(hostenv, l)
              IN  r.kind = "Command" /\ FlagsMatchFields(l, r.args)

\* C15 witness: a returned command for a launcher with mounts, environment
\* actions and an inherited environment, whose user and ipc fields are false
\* and whose pid field is true
C15_Witness ==
    /\ bubResult.kind = "Command"
    /\ Len(bub.mounts) >= 1 /\ Len(bub.env) >= 1
    /\ bub.inherit_env
    /\ ~bub.unshare_user /\ ~bub.unshare_ipc /\ bub.unshare_pid
    /\ Contains(bubResult.args, "--unshare-pid")

(***************************************************************************)
(* Reading the environment flags of an nsjail argument vector back.        *)
(***************************************************************************)
\* the operands of the "--env" flags, left to right
RECURSIVE ParseNsEnv(_)
ParseNsEnv(args) ==
    IF Len(args) < 2 THEN << >>
    ELSE IF Head(args) = "--env"
         THEN <<args[2]>> \o ParseNsEnv(SubSeq(args, 3, Len(args)))
         ELSE ParseNsEnv(Tail(args))

\* the operand the claim fixes for an environment action
NsEnvOperand(e) == IF e[1] = "Set" THEN e[2] \o "=" \o e[3] ELSE e[2]

\* C16: whenever NSJail::command returns, the argument vector holds exactly
\* one "--env" flag per environment action, in env() call order; the operand
\* is "name=value" for a Set action and the bare name for a Keep action.  A
\* Keep action is not looked up in the translating process's environment:
\* without a filesystem fault the call returns also when the variable cannot
\* be read there.
C16_OneEnvFlagPerAction ==
    /\ nsResult.kind = "Command" =>
          /\ Cardinality(Positions(nsResult.args, "--env")) = Len(ns.env)
          /\ ParseNsEnv(nsResult.args)
                = [i \in 1..Len(ns.env) |-> NsEnvOperand(ns.env[i])]
    /\ (nsResult # Pending /\ nsFault = NoFault) => nsResult.kind = "Command"

\* C16 witness: a returned command for a launcher with a Keep action, whose
\* variable cannot be read in the translating process, followed by a Set
\* action
C16_Witness ==
    /\ nsResult.kind = "Command"
    /\ ns.env = <<NSKeep("DISPLAY"), NSSet("HOME", "/home")>>
    /\ ~EnvVarLookup(hostenv, "DISPLAY").ok

(***************************************************************************)
(* Two launches sharing ./jail.proto.                                      *)
(***************************************************************************)
\* the file holds exactly the blocks of launch p
HoldsOwnBlocks(p) == protoFile = Some(JoinBlocks(LaunchBlocks(p)))

\* C17: the two launches open, truncate and write one and the same file, so
\* a returned launch is sure to find exactly its own blocks in ./jail.proto
\* only when the other launch has made no open and no write since this
\* launch opened the file; nothing keeps the other launch from doing so
\* (the interleaving itself is C17_Witness).
C17_OwnBlocksOnlyWhenUndisturbed ==
    \A p \in Launches :
        /\ (launch[p].pc = "returned" /\ ~launch[p].disturbed) => HoldsOwnBlocks(p)
        /\ launch[p].pc # "building" => protoFile # None
        /\ (launch[p].pc = "returned") =>
              /\ launch[p].result.kind = "Command"
              /\ Contains(launch[p].result.args, "./jail.proto")

\* C17 witness: both launches have returned, each configured at least one
\* block, and the file their invocations name holds exactly the blocks of
\* neither of them
C17_Witness ==
    /\ \A p \in Launches :
          /\ launch[p].pc = "returned"
          /\ Len(LaunchBlocks(p)) >= 1
          /\ ~HoldsOwnBlocks(p)

(***************************************************************************)
(* The reaper waiting for its command.                                     *)
(***************************************************************************)
\* the whole encoded command is on the stream and the host has dropped it
WrittenAndClosed ==
    /\ rpCommand # None
    /\ wire = Dispatch(Unwrap(rpCommand))
    /\ stdinClosed

\* Executing or Fatal, or past Executing
ReaperTerminal == reaper.state \in {"Executing", "Fatal", "Exited"}

\* while the stream is open and holds no complete command the reaper is in
\* AwaitingCommand and has started nothing; it leaves AwaitingCommand only on
\* bytes that settle the decode or on the end of the stream
ReaperBlocksOnIncomplete ==
    /\ (~stdinClosed /\ DeserializeFrom(wire).kind = "eof")
          => (reaper.state = "AwaitingCommand" /\ target = None)
    /\ reaper.state # "AwaitingCommand"
          => (stdinClosed \/ DeserializeFrom(reaper.input).kind # "eof")
    /\ reaper.state \in {"Decoded", "Executing", "Exited"}
          => DeserializeFrom(reaper.input).kind = "ok"

\* C18: the reaper stays in AwaitingCommand, starting nothing, until a
\* complete command is on its input (so a host that never writes and never
\* closes leaves it blocked for ever: no step takes it out of
\* AwaitingCommand); and once the host has written the encoded command and
\* dropped the stream, the reaper eventually is Executing or Fatal.
C18_BlocksThenTerminates ==
    /\ []ReaperBlocksOnIncomplete
    /\ WrittenAndClosed ~> ReaperTerminal

\* C18 witness: the host wrote the whole command and dropped the stream, and
\* the reaper, having read it, is executing the target
C18_Witness ==
    /\ WrittenAndClosed
    /\ reaper.state = "Executing"
    /\ reaper.input = wire
    /\ target # None

(***************************************************************************)
(* The three sections of a bwrap argument vector.                          *)
(***************************************************************************)
IsMountCall(c) == c[1] = "mount"
IsEnvCall(c) == c[1] = "env"

\* the operands of the calls of one kind, in call order
CallsOf(calls, kind) ==
    LET sel == SelectSeq(calls, LAMBDA c : c[1] = kind)
    IN  [i \in 1..Len(sel) |-> sel[i][2]]

\* args is a run of mount groups, then "--clearenv" and "--setenv" triples,
\* then namespace and session flags: the first section is as long as the
\* mount groups of args, the second as long as its environment arguments
InThreeSections(args) ==
    LET i == Len(Flatten(ParseMounts(args)))
        j == i + Cardinality(Positions(args, "--clearenv"))
               + 3 * Len(ParseSetenv(args))
        m == SubSeq(args, 1, i)
        e == SubSeq(args, i + 1, j)
        f == SubSeq(args, j + 1, Len(args))
    IN  /\ ParseFlags(m) = << >> /\ ParseSetenv(m) = << >>
        /\ ParseMounts(m) = ParseMounts(args)
        /\ ParseMounts(e) = << >>
        /\ \A k \in 1..Len(ParseFlags(e)) : ParseFlags(e)[k] = "--clearenv"
        /\ ParseSetenv(e) = ParseSetenv(args)
        /\ ParseMounts(f) = << >> /\ ParseSetenv(f) = << >>
        /\ ~Contains(f, "--clearenv")

\* C19: whenever BubLauncher::command returns, whatever the interleaving of
\* the mount() and env() calls was, the argument vector is all mount
\* arguments, then "--clearenv" and the "--setenv" triples, then the
\* namespace and session flags; the mounts are in mount() call order and the
\* triples in env() call order.
C19_PositionByKindNotCallTime ==
    /\ bub.mounts = CallsOf(bubCalls, "mount")
    /\ bub.env = CallsOf(bubCalls, "env")
    /\ bubResult.kind = "Command" =>
          /\ InThreeSections(bubResult.args)
          /\ ParseMounts(bubResult.args) = CallsOf(bubCalls, "mount")
          /\ ParseSetenv(bubResult.args)
                = [i \in 1..Len(bub.env) |->
                      ExpectedPair(CallsOf(bubCalls, "env")[i])]

\* C19 witness: a returned command for a launcher on which a mount was added
\* after an environment action, as bwrap_run does
C19_Witness ==
    /\ bubResult.kind = "Command"
    /\ Len(bubCalls) >= 3
    /\ IsMountCall(bubCalls[1])
    /\ IsEnvCall(bubCalls[2])
    /\ IsMountCall(bubCalls[3])
    /\ bubCalls[1] # bubCalls[3]

(***************************************************************************)
(* The fields command() never reads.                                       *)
(***************************************************************************)
\* the values hostname, uid and gid are given
HostnameValues == {None} \cup {Some(h) : h \in Hostnames}
IdValues == {None, Some(1000)}

\* the bwrap arguments that would carry a hostname or an identity
IdentityArgs == {"--hostname", "--uid", "--gid"} \cup Hostnames \cup {"1000"}

\* C20: whenever BubLauncher::command returns, a launcher that differs from
\* the translated one only in hostname, uid or gid translates to the same
\* argument vector, and the vector holds no hostname or identity argument.
C20_HostnameUidGidIgnored ==
    bubResult.kind = "Command" =>
        /\ \A h \in HostnameValues, uid \in IdValues, gid \in IdValues :
              BubCommand(hostenv, [bub EXCEPT !.hostname = h, !.uid = uid,
                                              !.gid = gid]) = bubResult
        /\ LET flags == ParseFlags(bubResult.args)
           IN  \A i \in 1..Len(flags) : flags[i] \notin IdentityArgs

\* C20 witness: a returned command for a launcher whose hostname was set by
\* hostname(), with mounts and environment actions
C20_Witness ==
    /\ bubResult.kind = "Command"
    /\ bub.hostname = Some("vanilla")
    /\ Len(bub.mounts) >= 1 /\ Len(bub.env) >= 1

====
